---------------------------- MODULE Spec2Model ----------------------------
(***************************************************************************)
(* A model of the Zephyr binding of the TinyUSB OS abstraction layer,      *)
(* src/osal/osal_zephyr.h: binary semaphore, priority-inheriting mutex and *)
(* fixed-capacity queue (k_mem_slab + k_fifo).  Every osal_* definition is *)
(* a translation of the function of the same name; the k_* definitions are *)
(* the Zephyr kernel calls those functions make, as the kernel documents   *)
(* them.                                                                   *)
(***************************************************************************)
EXTENDS Integers, Sequences, FiniteSets, TLC

VARIABLES
    \* ---- semaphore (struct k_sem behind osal_semaphore_t)
    sem_init,      \* osal_semaphore_create has run on the definition
    sem_count,     \* k_sem.count
    sem_limit,     \* k_sem.limit
    sem_waitq,     \* tasks pended on the semaphore (only k_sem_take pends)
    sem_posts,     \* posts since create/reset/wait, saturating at MaxPosts
    sem_waited,    \* some osal_semaphore_wait has run since create
    sem_last,      \* the last semaphore call: its name, inputs, pre-state, result
    \* ---- mutex (struct k_mutex behind osal_mutex_t)
    mtx_init,      \* osal_mutex_create has run on the definition
    mtx_owner,     \* k_mutex.owner
    mtx_lock_count,\* k_mutex.lock_count
    mtx_orig_prio, \* k_mutex.owner_orig_prio
    mtx_waitq,     \* tasks pended in k_mutex_lock
    mtx_prio,      \* each task's current (possibly inherited) priority
    mtx_held,      \* per task: successful locks minus successful unlocks
    mtx_last,      \* the last completed mutex call
    sleeping,      \* tasks asleep in osal_task_delay
    \* ---- queue (osal_queue_def_t: slab + fifo over the caller's buffer)
    q_def,         \* depth, item_sz and buffer alignment of the definition
    q_hdl,         \* what osal_queue_create returned
    slab_free,     \* k_mem_slab free list (block indices, head first)
    slab_ok,       \* k_mem_slab_init succeeded
    mem,           \* contents of each block of the buffer
    fifo,          \* k_fifo: block pointers, head first
    heap_free,     \* container nodes left in the resource pool of k_fifo_alloc_put
    tx,            \* the producer task inside osal_queue_send
    rx,            \* the consumer task inside osal_queue_receive
    q_last,        \* the last completed queue call
    q_sent,        \* items accepted by send and not yet taken by receive, in publish order
    q_filled,      \* the FIFO has held depth items at some moment since create
    q_pub          \* per published item not yet received: its producer and its block,
                   \* in publish order

semVars == <<sem_init, sem_count, sem_limit, sem_waitq, sem_posts, sem_waited, sem_last>>
mtxVars == <<mtx_init, mtx_owner, mtx_lock_count, mtx_orig_prio, mtx_waitq, mtx_prio,
             mtx_held, mtx_last, sleeping>>
qVars   == <<q_def, q_hdl, slab_free, slab_ok, mem, fifo, heap_free, tx, rx, q_last, q_sent,
            q_filled>>
ordVars == <<q_pub>>
vars    == <<semVars, mtxVars, qVars, ordVars>>

\* ------------------------------------------------------------------ bounds
MaxPosts == 2
MaxDepth == 2
MaxBlocks == 2
MaxHeap == 2

\* ------------------------------------------------------------- constants
\* UINT32_MAX: the all-ones 32-bit pattern, written as the signed value of that
\* pattern because TLC's integers are 32-bit signed
OSAL_TIMEOUT_WAIT_FOREVER == -1
\* sizeof(void *) of the 32-bit targets of the stack
WordSize == 4

None == "none"
Tasks == {"L", "K", "H"}
Callers == Tasks \cup {"isr"}
Msecs == {0, 10, OSAL_TIMEOUT_WAIT_FOREVER}

\* k_timeout_t ticks = (msec == OSAL_TIMEOUT_WAIT_FOREVER) ? K_FOREVER : K_MSEC(msec)
K_FOREVER == [forever |-> TRUE, ms |-> 0]
K_MSEC(ms) == [forever |-> FALSE, ms |-> ms]
K_NO_WAIT == K_MSEC(0)
Ticks(msec) == IF msec = OSAL_TIMEOUT_WAIT_FOREVER THEN K_FOREVER ELSE K_MSEC(msec)

(***************************************************************************)
(*                              SEMAPHORE                                  *)
(***************************************************************************)
SemInit ==
    /\ sem_init = FALSE
    /\ sem_count = 0
    /\ sem_limit = 0
    /\ sem_waitq = {}
    /\ sem_posts = 0
    /\ sem_waited = FALSE
    /\ sem_last = [op |-> None]

\* a give that does not saturate at the limit
k_sem_give_unbounded(count, limit) == count + 1

\* k_sem_give: hand the semaphore to a pended taker, else count += (count != limit)
k_sem_give_count(count, limit) == IF count # limit THEN count + 1 ELSE count

\* osal_semaphore_create: k_sem_init(semdef, 0, 1); return semdef
osal_semaphore_create ==
    /\ sem_count' = 0
    /\ sem_limit' = 1
    /\ sem_init' = TRUE
    /\ sem_waitq' = {}
    /\ sem_posts' = 0
    /\ sem_waited' = FALSE
    /\ sem_last' = [op |-> "create", hdl |-> "semdef"]

\* osal_semaphore_post: k_sem_give(sem_hdl); control falls off the end of a
\* function returning bool, so the value the caller reads is indeterminate.
osal_semaphore_post(caller, in_isr) ==
    /\ sem_init
    /\ \E ret \in BOOLEAN :
         sem_last' = [op |-> "post", caller |-> caller, in_isr |-> in_isr,
                      pre |-> sem_count, ret |-> ret]
    /\ IF sem_waitq # {}
         THEN \E t \in sem_waitq : sem_waitq' = sem_waitq \ {t} /\ sem_count' = sem_count
         ELSE sem_count' = k_sem_give_count(sem_count, sem_limit) /\ sem_waitq' = sem_waitq
    /\ sem_posts' = IF sem_posts < MaxPosts THEN sem_posts + 1 ELSE sem_posts
    /\ UNCHANGED <<sem_init, sem_limit, sem_waited>>

\* osal_semaphore_wait: computes ticks, then calls k_sem_give (not k_sem_take)
\* with them and compares its result with 0.  k_sem_give returns void, so the
\* comparison has no defined value; the call never pends the caller.
osal_semaphore_wait(caller, msec) ==
    /\ sem_init
    /\ \E ret \in BOOLEAN :
         sem_last' = [op |-> "wait", caller |-> caller, msec |-> msec, ticks |-> Ticks(msec),
                      pre |-> sem_count, posts |-> sem_posts, first |-> ~sem_waited,
                      prev |-> sem_last.op, ret |-> ret]
    /\ IF sem_waitq # {}
         THEN \E t \in sem_waitq : sem_waitq' = sem_waitq \ {t} /\ sem_count' = sem_count
         ELSE sem_count' = k_sem_give_count(sem_count, sem_limit) /\ sem_waitq' = sem_waitq
    /\ sem_posts' = 0
    /\ sem_waited' = TRUE
    /\ UNCHANGED <<sem_init, sem_limit>>

\* osal_semaphore_reset: k_sem_reset(sem_hdl) sets the count to 0
osal_semaphore_reset ==
    /\ sem_init
    /\ sem_count' = 0
    /\ sem_posts' = 0
    /\ sem_last' = [op |-> "reset", pre |-> sem_count]
    /\ UNCHANGED <<sem_init, sem_limit, sem_waitq, sem_waited>>

NextSem ==
    \/ osal_semaphore_create /\ UNCHANGED <<mtxVars, qVars, ordVars>>
    \/ \E c \in Callers, in_isr \in BOOLEAN :
         osal_semaphore_post(c, in_isr) /\ UNCHANGED <<mtxVars, qVars, ordVars>>
    \/ \E t \in Tasks, msec \in Msecs :
         osal_semaphore_wait(t, msec) /\ UNCHANGED <<mtxVars, qVars, ordVars>>
    \/ osal_semaphore_reset /\ UNCHANGED <<mtxVars, qVars, ordVars>>

(***************************************************************************)
(*                                MUTEX                                    *)
(***************************************************************************)
\* Zephyr priorities: a smaller number is a higher priority.
BasePrio == [t \in Tasks |-> CASE t = "H" -> 1 [] t = "K" -> 2 [] OTHER -> 3]
z_is_prio_higher(a, b) == a < b
\* an owner that keeps its own priority
new_prio_keep(target, limit) == limit

\* new_prio_for_inheritance: the higher of the two priorities
new_prio_for_inheritance(target, limit) == IF z_is_prio_higher(target, limit) THEN target ELSE limit

MtxWaiters == {w.task : w \in mtx_waitq}
\* z_waitq_head: the wait queue is ordered by priority
z_waitq_head(waiters) ==
    CHOOSE t \in waiters : \A u \in waiters : ~z_is_prio_higher(mtx_prio[u], mtx_prio[t])

MtxInit ==
    /\ mtx_init = FALSE
    /\ mtx_owner = None
    /\ mtx_lock_count = 0
    /\ mtx_orig_prio = 0
    /\ mtx_waitq = {}
    /\ mtx_prio = BasePrio
    /\ mtx_held = [t \in Tasks |-> 0]
    /\ mtx_last = [op |-> None]
    /\ sleeping = {}

\* osal_mutex_create: k_mutex_init(mdef); return mdef
osal_mutex_create ==
    /\ ~mtx_init
    /\ mtx_init' = TRUE
    /\ mtx_owner' = None
    /\ mtx_lock_count' = 0
    /\ mtx_last' = [op |-> "create", hdl |-> "mdef"]
    /\ UNCHANGED <<mtx_orig_prio, mtx_waitq, mtx_prio, mtx_held>>

\* a lock that does not look at the owner
k_mutex_lock_any(owner, lock_count, t) == TRUE

\* k_mutex_lock takes the mutex at once when it is free or the caller owns it
k_mutex_lock_free(owner, lock_count, t) == lock_count = 0 \/ owner = t

\* an unlock that releases the mutex whatever its depth
k_mutex_unlock_all(lock_count) == 0

\* k_mutex_unlock by the owner: the count after dropping one level
k_mutex_unlock_count(lock_count) == lock_count - 1

\* an unlock that does not check who calls it
k_mutex_unlock_anyone(owner, t) == TRUE

\* k_mutex_unlock goes on only for the owner: -EINVAL without an owner, -EPERM
\* for another task
k_mutex_unlock_owner(owner, t) == owner = t

\* osal_mutex_lock: k_mutex_lock(mutex_hdl, ticks) == 0, up to the point where
\* the caller returns or pends on the mutex's wait queue.
osal_mutex_lock(t, msec) ==
    /\ mtx_init
    /\ t \notin MtxWaiters
    /\ IF k_mutex_lock_free(mtx_owner, mtx_lock_count, t)
         THEN /\ mtx_lock_count < MaxDepth
              /\ mtx_orig_prio' = IF mtx_lock_count = 0 THEN mtx_prio[t] ELSE mtx_orig_prio
              /\ mtx_lock_count' = mtx_lock_count + 1
              /\ mtx_owner' = t
              /\ mtx_held' = [mtx_held EXCEPT ![t] = @ + 1]
              /\ mtx_last' = [op |-> "lock", caller |-> t, msec |-> msec, owner |-> mtx_owner,
                              count |-> mtx_lock_count, ret |-> TRUE]
              /\ UNCHANGED <<mtx_waitq, mtx_prio>>
         ELSE IF Ticks(msec) = K_NO_WAIT
         THEN \* K_NO_WAIT: -EBUSY
              /\ mtx_last' = [op |-> "lock", caller |-> t, msec |-> msec, owner |-> mtx_owner,
                              count |-> mtx_lock_count, ret |-> FALSE]
              /\ UNCHANGED <<mtx_owner, mtx_lock_count, mtx_orig_prio, mtx_waitq, mtx_prio,
                             mtx_held>>
         ELSE \* pend, lending the caller's priority to the owner
              /\ mtx_waitq' = mtx_waitq \cup {[task |-> t, msec |-> msec]}
              /\ mtx_prio' = [mtx_prio EXCEPT ![mtx_owner] =
                                new_prio_for_inheritance(mtx_prio[t], mtx_prio[mtx_owner])]
              /\ mtx_last' = [op |-> "pend", caller |-> t, msec |-> msec]
              /\ UNCHANGED <<mtx_owner, mtx_lock_count, mtx_orig_prio, mtx_held>>
    /\ UNCHANGED mtx_init

\* osal_mutex_lock, the timeout of a pended caller: k_mutex_lock returns -EAGAIN
\* after re-computing the owner's priority from the waiters that remain.
osal_mutex_lock_timeout(t) ==
    /\ \E w \in mtx_waitq :
         /\ w.task = t
         /\ Ticks(w.msec) # K_FOREVER
         /\ mtx_waitq' = mtx_waitq \ {w}
         /\ LET rest == MtxWaiters \ {t}
                new_prio == IF rest # {}
                              THEN new_prio_for_inheritance(mtx_prio[z_waitq_head(rest)],
                                                            mtx_orig_prio)
                              ELSE mtx_orig_prio
            IN  mtx_prio' = [mtx_prio EXCEPT ![mtx_owner] = new_prio]
         /\ mtx_last' = [op |-> "lock", caller |-> t, msec |-> w.msec, owner |-> mtx_owner,
                         count |-> mtx_lock_count, ret |-> FALSE]
    /\ UNCHANGED <<mtx_init, mtx_owner, mtx_lock_count, mtx_orig_prio, mtx_held>>

\* osal_mutex_unlock: k_mutex_unlock(mutex_hdl) == 0
osal_mutex_unlock(t) ==
    /\ mtx_init
    /\ t \notin MtxWaiters
    /\ IF ~k_mutex_unlock_owner(mtx_owner, t)
         THEN \* -EINVAL (no owner) or -EPERM (another owner)
              /\ mtx_last' = [op |-> "unlock", caller |-> t, owner |-> mtx_owner,
                              count |-> mtx_lock_count, ret |-> FALSE, woken |-> None]
              /\ UNCHANGED <<mtx_owner, mtx_lock_count, mtx_orig_prio, mtx_waitq, mtx_prio,
                             mtx_held>>
         ELSE IF k_mutex_unlock_count(mtx_lock_count) # 0
         THEN /\ mtx_lock_count' = k_mutex_unlock_count(mtx_lock_count)
              /\ mtx_held' = [mtx_held EXCEPT ![t] = @ - 1]
              /\ mtx_last' = [op |-> "unlock", caller |-> t, owner |-> mtx_owner,
                              count |-> mtx_lock_count, ret |-> TRUE, woken |-> None]
              /\ UNCHANGED <<mtx_owner, mtx_orig_prio, mtx_waitq, mtx_prio>>
         ELSE IF mtx_waitq = {}
         THEN /\ mtx_owner' = None
              /\ mtx_lock_count' = 0
              /\ mtx_prio' = [mtx_prio EXCEPT ![t] = mtx_orig_prio]
              /\ mtx_held' = [mtx_held EXCEPT ![t] = @ - 1]
              /\ mtx_last' = [op |-> "unlock", caller |-> t, owner |-> mtx_owner,
                              count |-> mtx_lock_count, ret |-> TRUE, woken |-> None]
              /\ UNCHANGED <<mtx_orig_prio, mtx_waitq>>
         ELSE \* hand the mutex to the first waiter, whose k_mutex_lock returns 0
              LET new_owner == z_waitq_head(MtxWaiters) IN
              /\ mtx_owner' = new_owner
              /\ mtx_lock_count' = mtx_lock_count
              /\ mtx_prio' = [mtx_prio EXCEPT ![t] = mtx_orig_prio]
              /\ mtx_orig_prio' = mtx_prio[new_owner]
              /\ mtx_waitq' = {w \in mtx_waitq : w.task # new_owner}
              /\ mtx_held' = [mtx_held EXCEPT ![t] = @ - 1, ![new_owner] = @ + 1]
              /\ mtx_last' = [op |-> "unlock", caller |-> t, owner |-> mtx_owner,
                              count |-> mtx_lock_count, ret |-> TRUE, woken |-> new_owner]
    /\ UNCHANGED mtx_init

NextMutex ==
    \/ osal_mutex_create /\ UNCHANGED <<sleeping, semVars, qVars, ordVars>>
    \/ \E t \in Tasks, msec \in Msecs :
         osal_mutex_lock(t, msec) /\ UNCHANGED <<sleeping, semVars, qVars, ordVars>>
    \/ \E t \in Tasks : osal_mutex_lock_timeout(t) /\ UNCHANGED <<sleeping, semVars, qVars, ordVars>>
    \/ \E t \in Tasks : osal_mutex_unlock(t) /\ UNCHANGED <<sleeping, semVars, qVars, ordVars>>

(***************************************************************************)
(*                         TASKS AND THE SCHEDULER                         *)
(* The three tasks are preemptible threads on one CPU: the kernel runs the *)
(* ready thread of the highest current priority.  A task is not ready      *)
(* while it sleeps in osal_task_delay or is pended in k_mutex_lock.        *)
(***************************************************************************)
Delays == {0, 10}

Ready == Tasks \ (sleeping \cup MtxWaiters)

\* the kernel's choice: a ready task that no ready task outranks
Runs(t) == t \in Ready /\ \A u \in Ready : ~z_is_prio_higher(mtx_prio[u], mtx_prio[t])

\* osal_task_delay: k_sleep(K_MSEC(msec)); a zero delay only yields
osal_task_delay(t, msec) ==
    /\ sleeping' = IF K_MSEC(msec) = K_NO_WAIT THEN sleeping ELSE sleeping \cup {t}
    /\ mtx_last' = [op |-> "delay", caller |-> t, msec |-> msec]
    /\ UNCHANGED <<mtx_init, mtx_owner, mtx_lock_count, mtx_orig_prio, mtx_waitq, mtx_prio,
                   mtx_held>>

\* the timeout of k_sleep: the timer makes the task ready again
k_sleep_timeout(t) ==
    /\ t \in sleeping
    /\ sleeping' = sleeping \ {t}
    /\ UNCHANGED <<mtx_init, mtx_owner, mtx_lock_count, mtx_orig_prio, mtx_waitq, mtx_prio,
                   mtx_held, mtx_last>>

\* the mutex calls made by the task the kernel runs; timers fire at any moment
NextSched ==
    \/ osal_mutex_create /\ UNCHANGED <<sleeping, semVars, qVars, ordVars>>
    \/ \E t \in Tasks, msec \in Msecs :
         Runs(t) /\ osal_mutex_lock(t, msec) /\ UNCHANGED <<sleeping, semVars, qVars, ordVars>>
    \/ \E t \in Tasks : osal_mutex_lock_timeout(t) /\ UNCHANGED <<sleeping, semVars, qVars, ordVars>>
    \/ \E t \in Tasks :
         Runs(t) /\ osal_mutex_unlock(t) /\ UNCHANGED <<sleeping, semVars, qVars, ordVars>>
    \/ \E t \in Tasks, msec \in Delays :
         Runs(t) /\ osal_task_delay(t, msec) /\ UNCHANGED <<semVars, qVars, ordVars>>
    \/ \E t \in Tasks : k_sleep_timeout(t) /\ UNCHANGED <<semVars, qVars, ordVars>>

(***************************************************************************)
(*                                QUEUE                                    *)
(* The producers are one task and one ISR.  The ISR runs to completion     *)
(* once it has started (no task step is taken while it is active); the     *)
(* producer task and the consumer task preempt each other between any two  *)
(* kernel calls.  The operations act on the queue definition, the object   *)
(* the handle is meant to refer to.                                        *)
(***************************************************************************)
Producers == {"task", "isr"}
ItemSizes == {2, 4}
\* the items callers send: item_sz bytes each
Items == {<<17, 0, 0, 0>>, <<34, 0, 0, 1>>}
Blocks == 1 .. q_def.depth
Idle == [pc |-> "idle"]

\* a copy one byte short
memcpy_short(dst, src, n) == [i \in 1 .. Len(dst) |-> IF i < n THEN src[i] ELSE dst[i]]

\* memcpy(dst, src, n)
memcpy(dst, src, n) == [i \in 1 .. Len(dst) |-> IF i <= n THEN src[i] ELSE dst[i]]

\* a copy loop that stops after its first byte
memcpy_done_early(n, size) == n >= 1

\* memcpy has copied all size bytes
memcpy_done(n, size) == n = size

\* the first word of a free block holds the slab's free-list link
SlabLink(block) == [i \in 1 .. Len(block) |-> IF i <= WordSize THEN -1 ELSE block[i]]

\* k_mem_slab_init: -EINVAL unless block size and buffer are word aligned
k_mem_slab_init(item_sz, aligned) == IF item_sz % WordSize = 0 /\ aligned THEN 0 ELSE -22

\* a free list that misses the last block of the buffer
RECURSIVE create_free_list_short(_)
create_free_list_short(n) == IF n <= 1 THEN <<>> ELSE <<n - 1>> \o create_free_list_short(n - 1)

\* the free list k_mem_slab_init builds: each block is pushed at the head
RECURSIVE create_free_list(_)
create_free_list(n) == IF n = 0 THEN <<>> ELSE <<n>> \o create_free_list(n - 1)

\* k_mem_slab_alloc(K_NO_WAIT): 0 and the head of the free list, or -ENOMEM
k_mem_slab_alloc(free_list) == IF free_list = <<>> THEN -12 ELSE 0

\* a free that links the block into the free list twice
k_mem_slab_free_twice(free_list, block) == <<block, block>> \o free_list

\* k_mem_slab_free: the block goes back to the head of the free list
k_mem_slab_free(free_list, block) == <<block>> \o free_list

\* k_fifo_alloc_put without a pended reader: -ENOMEM when the resource pool
\* has no room for the container node
k_fifo_alloc_put(heap) == IF heap = 0 THEN -12 ELSE 0

\* a put that links the item in at the head of the list
sys_sflist_prepend(list, item) == <<item>> \o list

\* k_fifo_alloc_put appends the item at the tail of the list
sys_sflist_append(list, item) == Append(list, item)

\* a put that never looks at the wait queue
z_unpend_none(reader) == FALSE

\* z_unpend_first_thread(&queue->wait_q) != NULL: a reader is pended in k_fifo_get
z_unpend_first_thread(reader) == reader.pc = "pend"

\* k_fifo_is_empty: non-zero when the list holds no item
k_fifo_is_empty(list) == IF list = <<>> THEN 1 ELSE 0

\* the receiver's destination buffer before the copy
RecvBuf == [i \in 1 .. q_def.item_sz |-> 0]

IsrActive == tx["isr"].pc # "idle"
MayRun(p) == IF p = "isr" THEN TRUE ELSE ~IsrActive

\* blocks a call in progress holds outside the free list and the FIFO
Busy == Cardinality({p \in Producers : tx[p].pc \in {"copy", "put"}})
          + (IF rx.pc \in {"got", "free"} THEN 1 ELSE 0)

QueueInit ==
    /\ q_def \in [depth : 1 .. MaxBlocks, item_sz : ItemSizes, aligned : BOOLEAN]
    /\ q_hdl = "uncreated"
    /\ slab_ok = FALSE
    /\ slab_free = <<>>
    /\ mem = [b \in Blocks |-> [i \in 1 .. q_def.item_sz |-> 0]]
    /\ fifo = <<>>
    /\ heap_free \in 0 .. MaxHeap
    /\ tx = [p \in Producers |-> Idle]
    /\ rx = Idle
    /\ q_last = [op |-> None]
    /\ q_sent = <<>>
    /\ q_filled = FALSE

\* osal_queue_create: k_mem_slab_init, k_fifo_init, return &qdef.  qdef is the
\* function's own parameter, so &qdef is the address of that local pointer
\* variable and not the address of the definition it points to.
osal_queue_create ==
    /\ q_hdl = "uncreated"
    /\ LET rc == k_mem_slab_init(q_def.item_sz, q_def.aligned) IN
         IF rc # 0
           THEN /\ q_hdl' = "NULL"
                /\ UNCHANGED <<slab_ok, slab_free, mem, fifo>>
           ELSE /\ q_hdl' = "addr_of_parameter"
                /\ slab_ok' = TRUE
                /\ slab_free' = create_free_list(q_def.depth)
                /\ mem' = [b \in Blocks |-> SlabLink(mem[b])]
                /\ fifo' = <<>>
    /\ q_last' = [op |-> "create"]
    /\ UNCHANGED <<q_def, heap_free, tx, rx, q_sent, q_filled>>

\* osal_queue_send, first step: rc = k_mem_slab_alloc(&qhdl->slab, &new_item, K_NO_WAIT);
\* if (rc) return false
osal_queue_send_alloc(p, data) ==
    /\ slab_ok /\ MayRun(p)
    /\ tx[p].pc = "idle"
    /\ LET rc == k_mem_slab_alloc(slab_free)
           call == [by |-> p, in_isr |-> (p = "isr"), data |-> data,
                    sent |-> Len(q_sent), busy |-> Busy, filled |-> q_filled]
       IN IF rc # 0
            THEN /\ q_last' = [op |-> "send", call |-> call, ret |-> FALSE, step |-> "alloc",
                               item |-> 0, copied |-> FALSE, fifo0 |-> fifo]
                 /\ UNCHANGED <<slab_free, tx>>
            ELSE /\ slab_free' = Tail(slab_free)
                 /\ tx' = [tx EXCEPT ![p] = [pc |-> "copy", new_item |-> Head(slab_free),
                                             n |-> 0, call |-> call]]
                 /\ q_last' = [op |-> "step"]
    /\ UNCHANGED <<q_def, q_filled, q_hdl, slab_ok, mem, fifo, heap_free, rx, q_sent>>

\* osal_queue_send, second step: memcpy(new_item, data, qhdl->item_sz).  A task
\* can be preempted between any two bytes, so it copies one byte per step; no
\* task runs during the ISR's copy, so the ISR's is one step.
osal_queue_send_copy(p) ==
    /\ MayRun(p)
    /\ tx[p].pc = "copy"
    /\ LET n == IF p = "isr" THEN q_def.item_sz ELSE tx[p].n + 1 IN
         /\ mem' = [mem EXCEPT ![tx[p].new_item] = memcpy(@, tx[p].call.data, n)]
         /\ tx' = [tx EXCEPT ![p].n = n,
                             ![p].pc = IF memcpy_done(n, q_def.item_sz) THEN "put" ELSE "copy"]
    /\ q_last' = [op |-> "step"]
    /\ UNCHANGED <<q_def, q_filled, q_hdl, slab_ok, slab_free, fifo, heap_free, rx, q_sent>>

\* osal_queue_send, last step: rc = k_fifo_alloc_put(&qhdl->fifo, new_item);
\* if (rc) { k_mem_slab_free(&qhdl->slab, &new_item); return false; } return true.
\* A reader pended in k_fifo_get is handed the item directly, without a container node.
osal_queue_send_put(p) ==
    /\ MayRun(p)
    /\ tx[p].pc = "put"
    /\ LET item == tx[p].new_item IN
       IF z_unpend_first_thread(rx)
         THEN /\ rx' = [pc |-> "got", item |-> item, n |-> 0, data |-> rx.data,
                        blocked |-> TRUE, woke |-> tx[p].call.data]
              /\ q_sent' = Append(q_sent, tx[p].call.data)
              /\ q_last' = [op |-> "send", call |-> tx[p].call, ret |-> TRUE, step |-> "put",
                            item |-> item, copied |-> TRUE, fifo0 |-> fifo]
              /\ UNCHANGED <<slab_free, mem, fifo, heap_free>>
         ELSE IF k_fifo_alloc_put(heap_free) # 0
         THEN /\ slab_free' = k_mem_slab_free(slab_free, item)
              /\ mem' = [mem EXCEPT ![item] = SlabLink(@)]
              /\ q_last' = [op |-> "send", call |-> tx[p].call, ret |-> FALSE, step |-> "put",
                            item |-> item, copied |-> (mem[item] = tx[p].call.data),
                            fifo0 |-> fifo]
              /\ UNCHANGED <<fifo, heap_free, rx, q_sent>>
         ELSE /\ fifo' = sys_sflist_append(fifo, item)
              /\ heap_free' = heap_free - 1
              /\ q_sent' = Append(q_sent, tx[p].call.data)
              /\ q_last' = [op |-> "send", call |-> tx[p].call, ret |-> TRUE, step |-> "put",
                            item |-> item, copied |-> TRUE, fifo0 |-> fifo]
              /\ UNCHANGED <<slab_free, mem, rx>>
    /\ tx' = [tx EXCEPT ![p] = Idle]
    /\ q_filled' = (q_filled \/ Len(fifo') = q_def.depth)
    /\ UNCHANGED <<q_def, q_hdl, slab_ok>>

\* osal_queue_receive, first step: new_item = k_fifo_get(&qhdl->fifo, K_FOREVER),
\* which takes the head of the list (freeing its container node) or pends the caller
osal_queue_receive_get ==
    /\ slab_ok /\ ~IsrActive
    /\ rx.pc = "idle"
    /\ IF fifo # <<>>
         THEN /\ rx' = [pc |-> "got", item |-> Head(fifo), n |-> 0, data |-> RecvBuf,
                        blocked |-> FALSE, woke |-> <<>>]
              /\ fifo' = Tail(fifo)
              /\ heap_free' = heap_free + 1
         ELSE /\ rx' = [pc |-> "pend", data |-> RecvBuf]
              /\ UNCHANGED <<fifo, heap_free>>
    /\ q_last' = [op |-> "step"]
    /\ UNCHANGED <<q_def, q_filled, q_hdl, slab_ok, slab_free, mem, tx, q_sent>>

\* osal_queue_receive, second step: memcpy(data, new_item, qhdl->item_sz), one
\* byte at a time
osal_queue_receive_copy ==
    /\ ~IsrActive
    /\ rx.pc = "got"
    /\ rx' = [rx EXCEPT !.n = @ + 1,
                        !.data = memcpy(@, mem[rx.item], rx.n + 1),
                        !.pc = IF memcpy_done(rx.n + 1, q_def.item_sz) THEN "free" ELSE "got"]
    /\ q_last' = [op |-> "step"]
    /\ UNCHANGED <<q_def, q_filled, q_hdl, slab_ok, slab_free, mem, fifo, heap_free, tx, q_sent>>

\* osal_queue_receive, last step: k_mem_slab_free(&qhdl->slab, &new_item); return true
osal_queue_receive_free ==
    /\ ~IsrActive
    /\ rx.pc = "free"
    /\ slab_free' = k_mem_slab_free(slab_free, rx.item)
    /\ mem' = [mem EXCEPT ![rx.item] = SlabLink(@)]
    /\ q_last' = [op |-> "receive", ret |-> TRUE, data |-> rx.data, blocked |-> rx.blocked,
                  woke |-> rx.woke, expect |-> Head(q_sent), item |-> rx.item]
    /\ q_sent' = Tail(q_sent)
    /\ rx' = Idle
    /\ UNCHANGED <<q_def, q_filled, q_hdl, slab_ok, fifo, heap_free, tx>>

\* osal_queue_empty: return (k_fifo_is_empty(&qhdl->fifo) == 0)
osal_queue_empty ==
    /\ slab_ok /\ ~IsrActive
    /\ q_last' = [op |-> "empty", ret |-> (k_fifo_is_empty(fifo) = 0), len |-> Len(fifo)]
    /\ UNCHANGED <<q_def, q_filled, q_hdl, slab_ok, slab_free, mem, fifo, heap_free, tx, rx, q_sent>>

NextQueue ==
    \/ osal_queue_create /\ UNCHANGED <<semVars, mtxVars, ordVars>>
    \/ \E p \in Producers, data \in Items : osal_queue_send_alloc(p, data) /\ UNCHANGED <<semVars, mtxVars, ordVars>>
    \/ \E p \in Producers : osal_queue_send_copy(p) /\ UNCHANGED <<semVars, mtxVars, ordVars>>
    \/ \E p \in Producers : osal_queue_send_put(p) /\ UNCHANGED <<semVars, mtxVars, ordVars>>
    \/ osal_queue_receive_get /\ UNCHANGED <<semVars, mtxVars, ordVars>>
    \/ osal_queue_receive_copy /\ UNCHANGED <<semVars, mtxVars, ordVars>>
    \/ osal_queue_receive_free /\ UNCHANGED <<semVars, mtxVars, ordVars>>
    \/ osal_queue_empty /\ UNCHANGED <<semVars, mtxVars, ordVars>>

(***************************************************************************)
(*                           SPECIFICATIONS                                *)
(***************************************************************************)
OrdInit == q_pub = <<>>

Init == SemInit /\ MtxInit /\ QueueInit /\ OrdInit

\* one primitive at a time, the other two left as constructed
InitOne ==
    /\ SemInit /\ MtxInit /\ QueueInit /\ OrdInit
    /\ q_def = [depth |-> 1, item_sz |-> WordSize, aligned |-> TRUE]
    /\ heap_free = 0

SpecSem == InitOne /\ [][NextSem]_vars
SpecMutex == InitOne /\ [][NextMutex]_vars
SpecSched == InitOne /\ [][NextSched]_vars
SpecQueue == Init /\ [][NextQueue]_vars

\* The publish log, kept by observing the queue steps: a send that returns true
\* has just published its block, a receive that returns has just freed the
\* oldest published block.
OrderTrack ==
    IF q_last'.op = "send" /\ q_last'.ret
      THEN q_pub' = Append(q_pub, [by |-> q_last'.call.by, block |-> q_last'.item])
      ELSE IF q_last'.op = "receive"
      THEN q_pub' = Tail(q_pub)
      ELSE UNCHANGED ordVars

NextOrder ==
    \/ osal_queue_create /\ OrderTrack /\ UNCHANGED <<semVars, mtxVars>>
    \/ \E p \in Producers, data \in Items :
         osal_queue_send_alloc(p, data) /\ OrderTrack /\ UNCHANGED <<semVars, mtxVars>>
    \/ \E p \in Producers : osal_queue_send_copy(p) /\ OrderTrack /\ UNCHANGED <<semVars, mtxVars>>
    \/ \E p \in Producers : osal_queue_send_put(p) /\ OrderTrack /\ UNCHANGED <<semVars, mtxVars>>
    \/ osal_queue_receive_get /\ OrderTrack /\ UNCHANGED <<semVars, mtxVars>>
    \/ osal_queue_receive_copy /\ OrderTrack /\ UNCHANGED <<semVars, mtxVars>>
    \/ osal_queue_receive_free /\ OrderTrack /\ UNCHANGED <<semVars, mtxVars>>
    \/ osal_queue_empty /\ OrderTrack /\ UNCHANGED <<semVars, mtxVars>>

\* two producers on one queue of MaxBlocks items
InitOrder ==
    /\ SemInit /\ MtxInit /\ QueueInit /\ OrdInit
    /\ q_def = [depth |-> MaxBlocks, item_sz |-> WordSize, aligned |-> TRUE]

SpecOrder == InitOrder /\ [][NextOrder]_vars

(***************************************************************************)
(*                               CLAIMS                                    *)
(***************************************************************************)
\* the items the queue holds, oldest first: the one the receiver has taken and
\* not yet returned, then those of the FIFO
QueueContents ==
    (IF rx.pc = "got" THEN <<mem[rx.item]>> ELSE IF rx.pc = "free" THEN <<rx.data>> ELSE <<>>)
      \o [i \in 1 .. Len(fifo) |-> mem[fifo[i]]]

\* C1: the items of the queue are, at every moment, exactly the items accepted
\* by send and not yet received, in the order sent and byte for byte equal to
\* what was passed to send; every receive returns true with the oldest of them.
C1_FifoOrder ==
    /\ slab_ok => QueueContents = q_sent
    /\ q_last.op = "receive" => q_last.ret /\ q_last.data = q_last.expect

\* two items were queued together, the first has been received and the second
\* is still queued
C1_Witness ==
    /\ q_last.op = "receive" /\ q_last.ret /\ q_filled /\ q_def.depth = 2
    /\ q_last.data = <<17, 0, 0, 0>> /\ q_sent = << <<34, 0, 0, 1>> >>

\* C2: a queue never holds more than depth items and a send called while it
\* holds depth items returns false; once the queue has been full, a send called
\* while it holds fewer than depth items (no other call in progress) returns true.
C2_Capacity ==
    /\ Len(q_sent) <= q_def.depth /\ Len(fifo) <= q_def.depth
    /\ (q_last.op = "send" /\ q_last.call.sent = q_def.depth) => ~q_last.ret
    /\ (q_last.op = "send" /\ q_last.call.filled /\ q_last.call.busy = 0
          /\ q_last.call.sent < q_def.depth) => q_last.ret

\* the queue was full, one item was received, and the next send succeeded
C2_Witness ==
    /\ q_last.op = "send" /\ q_last.ret /\ q_last.call.filled /\ q_last.call.busy = 0
    /\ q_last.call.sent = q_def.depth - 1 /\ Len(q_sent) = q_def.depth

\* C3: on a semaphore not yet waited on, after one or more posts the next wait
\* returns true and leaves the count at 0.
C3_PostThenWait ==
    (sem_last.op = "wait" /\ sem_last.first /\ sem_last.posts >= 1)
        => (sem_last.ret /\ sem_count = 0)

\* C4: a wait on an empty semaphore blocks: the caller is pended on the
\* semaphore and the count stays 0 until a post hands it the semaphore.
C4_WaitOnEmptyBlocks ==
    (sem_last.op = "wait" /\ sem_last.pre = 0)
        => (sem_last.caller \in sem_waitq /\ sem_count = 0)

\* C5: the receiver is pended only while the queue holds no item, it leaves the
\* pended state only by a send that succeeds, and it then returns true with
\* exactly the item of that send.
C5_Pended == rx.pc = "pend" => (fifo = <<>> /\ q_sent = <<>>)
C5_Delivered == (q_last.op = "receive" /\ q_last.blocked) => (q_last.ret /\ q_last.data = q_last.woke)
C5_WokenBySend ==
    (rx.pc = "pend" /\ rx'.pc # "pend")
        => /\ q_last'.op = "send" /\ q_last'.ret
           /\ rx'.pc = "got" /\ mem'[rx'.item] = q_last'.call.data
C5_ReceiveBlocksUntilSend == [](C5_Pended /\ C5_Delivered) /\ [][C5_WokenBySend]_vars

\* a receive that pended has returned the item of the send that woke it
C5_Witness == q_last.op = "receive" /\ q_last.blocked /\ q_last.data = <<34, 0, 0, 1>>

\* C6: at most one task holds the mutex; a lock by another task that returns
\* while the mutex is held returns false and leaves owner and depth as they
\* were; a lock on an unlocked mutex returns true; a pended locker is given the
\* mutex only when the owner has unlocked it to depth 0.
C6_MutualExclusion ==
    /\ Cardinality({t \in Tasks : mtx_held[t] > 0}) <= 1
    /\ \A t \in Tasks : mtx_held[t] > 0 => mtx_owner = t
    /\ (mtx_last.op = "lock" /\ mtx_last.owner \notin {None, mtx_last.caller})
          => /\ ~mtx_last.ret
             /\ mtx_owner = mtx_last.owner /\ mtx_lock_count = mtx_last.count
    /\ (mtx_last.op = "lock" /\ mtx_last.owner = None)
          => (mtx_last.ret /\ mtx_owner = mtx_last.caller)
    /\ (mtx_last.op = "unlock" /\ mtx_last.woken # None)
          => (mtx_last.count = 1 /\ mtx_owner = mtx_last.woken /\ mtx_held[mtx_last.caller] = 0)

\* a lock with a finite timeout has returned false while another task holds the
\* mutex at depth 2
C6_Witness ==
    /\ mtx_last.op = "lock" /\ ~mtx_last.ret /\ mtx_last.msec = 10
    /\ mtx_owner \notin {None, mtx_last.caller} /\ mtx_lock_count = 2

\* C7: the depth of the mutex is the owner's successful locks minus its
\* successful unlocks, no other task has any; a lock by the owner returns true
\* and adds one; an unlock at depth 1 leaves the mutex unlocked (or hands it
\* over), an unlock at a greater depth leaves it locked by the same task.
C7_RecursionDepth ==
    /\ mtx_owner = None => (mtx_lock_count = 0 /\ \A t \in Tasks : mtx_held[t] = 0)
    /\ mtx_owner # None
          => /\ mtx_lock_count = mtx_held[mtx_owner] /\ mtx_lock_count >= 1
             /\ \A t \in Tasks \ {mtx_owner} : mtx_held[t] = 0
    /\ (mtx_last.op = "lock" /\ mtx_last.owner = mtx_last.caller)
          => /\ mtx_last.ret
             /\ mtx_owner = mtx_last.caller /\ mtx_lock_count = mtx_last.count + 1
    /\ (mtx_last.op = "unlock" /\ mtx_last.ret)
          => IF mtx_last.count = 1
               THEN mtx_owner = mtx_last.woken
               ELSE mtx_owner = mtx_last.caller /\ mtx_lock_count = mtx_last.count - 1

\* lock, lock, unlock: the mutex is still locked by the same task, at depth 1
C7_Witness ==
    /\ mtx_last.op = "unlock" /\ mtx_last.ret /\ mtx_last.count = 2
    /\ mtx_owner = mtx_last.caller /\ mtx_lock_count = 1

\* C8: osal_queue_create returns the address of the definition when the
\* allocator initializes, and a null handle when it does not.
C8_CreateReturnsDefinition ==
    q_hdl # "uncreated" => q_hdl = (IF slab_ok THEN "addr_of_definition" ELSE "NULL")

\* C9: osal_queue_empty returns true exactly when the FIFO holds no item.
C9_EmptyIffNoItems == q_last.op = "empty" => (q_last.ret <=> q_last.len = 0)

\* C10: the count of the semaphore is 0 or 1, and a post on a signaled
\* semaphore leaves it signaled (count 1).
C10_Binary ==
    /\ sem_count \in {0, 1}
    /\ (sem_last.op = "post" /\ sem_last.pre = 1) => sem_count = 1
    /\ (sem_last.op = "post" /\ sem_last.pre = 0) => sem_count = 1
    /\ sem_last.op \in {"create", "reset"} => sem_count = 0

\* a second post without a wait in between
C10_Witness == sem_last.op = "post" /\ sem_last.pre = 1 /\ sem_posts >= 2 /\ sem_count = 1

\* C11: a wait with a finite timeout on an empty semaphore, with no post in
\* between, returns false and leaves the count at 0.
C11_TimeoutLeavesEmpty ==
    (sem_last.op = "wait" /\ sem_last.pre = 0 /\ sem_last.msec # OSAL_TIMEOUT_WAIT_FOREVER)
        => (~sem_last.ret /\ sem_count = 0)

\* C12: a wait(S, 0) that directly follows a reset returns false.
C12_ResetThenWait ==
    (sem_last.op = "wait" /\ sem_last.prev = "reset" /\ sem_last.msec = 0) => ~sem_last.ret

\* C13: an unlock by a task that does not own the mutex (another owner, or no
\* owner) returns false and leaves owner and depth as they were; an unlock by
\* the owner returns true and takes one from the depth, and at depth 0 the
\* caller holds the mutex no longer (it is unlocked, or handed to a waiter at
\* depth 1).
C13_Unlock ==
    mtx_last.op = "unlock" =>
        IF mtx_last.owner # mtx_last.caller
          THEN /\ ~mtx_last.ret
               /\ mtx_owner = mtx_last.owner /\ mtx_lock_count = mtx_last.count
          ELSE /\ mtx_last.ret
               /\ mtx_held[mtx_last.caller] = mtx_last.count - 1
               /\ IF mtx_last.count > 1
                    THEN mtx_owner = mtx_last.caller /\ mtx_lock_count = mtx_last.count - 1
                    ELSE /\ mtx_owner # mtx_last.caller
                         /\ mtx_owner = mtx_last.woken
                         /\ mtx_lock_count = (IF mtx_last.woken = None THEN 0 ELSE 1)

\* an unlock by a task that is not the owner has returned false, the mutex
\* still held at depth 2 by its owner
C13_Witness ==
    /\ mtx_last.op = "unlock" /\ ~mtx_last.ret
    /\ mtx_owner \notin {None, mtx_last.caller} /\ mtx_lock_count = 2

\* C14: osal_semaphore_post returns true, whatever in_isr and the state are.
C14_PostReturnsTrue == sem_last.op = "post" => sem_last.ret

\* the blocks the queue holds, oldest first
QueueBlocks == (IF rx.pc \in {"got", "free"} THEN <<rx.item>> ELSE <<>>) \o fifo

\* C17: with a task and an ISR sending to the same queue, the blocks the
\* receiver takes are the published blocks in the order of their publish steps,
\* and so each producer's own items, which it publishes one send after another,
\* are received in that producer's program order.
C17_PublishOrder ==
    /\ slab_ok => QueueBlocks = [i \in 1 .. Len(q_pub) |-> q_pub[i].block]
    /\ q_last.op = "receive" => q_last.data = q_last.expect
    /\ \A p \in Producers : tx[p].pc = "put" => \A i \in 1 .. Len(q_pub) :
         q_pub[i].block # tx[p].new_item

\* the ISR preempted the task inside its send: the task's call began on an empty
\* queue, and the ISR's item was published first and stands ahead of the task's
C17_Witness ==
    /\ q_last.op = "send" /\ q_last.ret /\ q_last.call.by = "task" /\ q_last.call.sent = 0
    /\ Len(q_pub) = 2 /\ q_pub[1].by = "isr" /\ q_pub[2].by = "task"
    /\ fifo = <<q_pub[1].block, q_pub[2].block>>

\* the blocks on the free list of the slab
FreeBlocks == {slab_free[i] : i \in 1 .. Len(slab_free)}

\* C15: when osal_queue_send returns false the FIFO is as it was, the block the
\* call took (if any) is back on the free list, and the item was not copied
\* into queue storage.
C15_FailedSendLeavesQueue ==
    (q_last.op = "send" /\ ~q_last.ret) =>
        /\ fifo = q_last.fifo0
        /\ q_last.step = "put" => q_last.item \in FreeBlocks
        /\ ~q_last.copied

\* the first item_sz bytes are those of one item passed to send
Complete(bytes) == \E d \in Items : \A i \in 1 .. q_def.item_sz : bytes[i] = d[i]

\* the blocks a send in progress is still writing or about to publish
Writing == {tx[p].new_item : p \in {q \in Producers : tx[q].pc \in {"copy", "put"}}}

\* C18: a block reachable from the FIFO, or taken from it by a receive in
\* progress, holds all item_sz bytes of an item, is not on the free list and is
\* not being written by any send; receive frees the block only with all bytes
\* copied out, and what it returns is the complete oldest item.
C18_SendAtomic ==
    /\ \A i \in 1 .. Len(QueueBlocks) :
         /\ Complete(mem[QueueBlocks[i]])
         /\ QueueBlocks[i] \notin FreeBlocks \cup Writing
    /\ rx.pc = "free" => \A i \in 1 .. q_def.item_sz : rx.data[i] = mem[rx.item][i]
    /\ q_last.op = "receive" => Complete(q_last.data) /\ q_last.data = q_last.expect

\* an ISR send has just published its item between two bytes of the receiver's
\* copy of an older item
C18_Witness ==
    /\ rx.pc = "got" /\ 0 < rx.n /\ rx.n < q_def.item_sz
    /\ q_last.op = "send" /\ q_last.ret /\ q_last.call.by = "isr"
    /\ fifo = <<q_last.item>>

\* C19: no step of send or receive changes the amount of free memory outside
\* the queue's own buffer, and a send that obtained a block returns true.
C19_NoHeap ==
    [][/\ heap_free' = heap_free
       /\ (q_last'.op = "send" /\ q_last'.step = "put") => q_last'.ret]_vars

\* the blocks calls in progress hold: taken from the slab and not yet published,
\* or taken from the FIFO and not yet freed
Held == Writing \cup (IF rx.pc \in {"got", "free"} THEN {rx.item} ELSE {})

\* C20: in a created queue of depth n every block is in exactly one place: on
\* the free list, in the FIFO, or held by a call in progress; so with no call in
\* progress the allocated blocks (n minus the free ones) are the FIFO's items,
\* and no block is leaked or freed twice.
C20_BlockConservation ==
    slab_ok =>
        /\ Len(slab_free) + Len(fifo) + Busy = q_def.depth
        /\ FreeBlocks \cup {fifo[i] : i \in 1 .. Len(fifo)} \cup Held = Blocks
        /\ Cardinality(Held) = Busy
        /\ Busy = 0 => q_def.depth - Len(slab_free) = Len(fifo)

\* a receive has just returned its block to the slab while another item is queued
C20_Witness ==
    /\ q_last.op = "receive" /\ Busy = 0
    /\ q_def.depth = 2 /\ Len(fifo) = 1 /\ slab_free = <<q_last.item>>

\* H is pended on the mutex with no timeout
HBlocked == [task |-> "H", msec |-> OSAL_TIMEOUT_WAIT_FOREVER] \in mtx_waitq

\* C16: while L owns the mutex and H is pended on it forever, L has H's
\* priority; as long as L is ready the kernel does not run K; and the step in
\* which L stops owning the mutex hands it to H, which the kernel then runs.
C16_PriorityInheritance ==
    [][(mtx_owner = "L" /\ HBlocked) =>
         /\ mtx_prio["L"] = BasePrio["H"]
         /\ "L" \in Ready => Runs("L") /\ ~Runs("K")
         /\ mtx_owner' # "L" =>
              /\ mtx_owner' = "H" /\ mtx_last'.caller = "L"
              /\ mtx_prio'["L"] = BasePrio["L"]
              /\ Runs("H")' /\ ~Runs("K")']_vars

\* K has become ready while L, owning the mutex H waits for, is ready too
C16_Witness ==
    /\ mtx_owner = "L" /\ HBlocked
    /\ {"L", "K"} \subseteq Ready
    /\ mtx_last.op = "pend" /\ mtx_last.caller = "H"

=============================================================================
